---- MODULE Spec2Model ----
(***************************************************************************)
(* Model of the `process` crate of xivtools (src/process/src/lib.rs):      *)
(* Process::new / get_process_modules (locating a process and listing its  *)
(* modules), Process::read (raw cross-process read) and RemoteStruct       *)
(* (typed overlay refreshed from remote memory).  The operating system is  *)
(* the environment: its process table, the handles it has given out, the   *)
(* remote memory and the outcome of each call are modelled explicitly.     *)
(***************************************************************************)
EXTENDS Integers, Sequences, FiniteSets, TLC

\* ---------------------------------------------------------------- bounds
MaxTail == 2        \* explicit entries at the end of the OS process table
MaxMods == 1        \* modules loaded in one process
MaxHandles == 2     \* handles OpenProcess gives out in one behaviour
MaxValues == 1      \* live values Process::new has handed to the caller
MaxClones == 1      \* live clones of them
MemSize == 2        \* mapped bytes of a remote address space (0..MemSize-1)
TSize == 2          \* mem::size_of::<T>() of the overlaid record type

\* ------------------------------------------------------ program constants
ProcBufLen == 1024       \* let mut processes = [0; 1024]
ModuleCapacity == 1024   \* Vec::with_capacity(1024)
SizeOfU32 == 4           \* mem::size_of::<u32>()
SizeOfIsize == 8         \* mem::size_of::<isize>() on a 64-bit target

Names == {"ffxiv.exe", "other.exe"}
Byte == {0, 1}
ErrCodes == {5, 299}     \* GetLastError(): ACCESS_DENIED, PARTIAL_COPY

Min(a, b) == IF a < b THEN a ELSE b

VARIABLES
    table,      \* OS process table: pad unopenable system processes, then tail
    handles,    \* handle table of the caller: handles[h] = index of the process
    mem,        \* remote memory: mem[pid][a] for the processes of the tail
    procs,      \* live Process values held by the caller
    overlay,    \* the RemoteStruct<T> the caller holds: <<>> or <<it>>
    last        \* the last operation, its inputs, OS outcomes and result

vars == <<table, handles, mem, procs, overlay, last>>

\* ------------------------------------------------------------ OS process table
\* Entry of the process table: its main image name, whether OpenProcess
\* succeeds on it, whether K32GetModuleBaseNameA succeeds on it, and the
\* number of modules it has loaded.
Entries ==
    {e \in [name : Names, openable : BOOLEAN, named : BOOLEAN, nmods : {MaxMods}] :
        ~e.openable => e.named}

SystemEntry == [name |-> "System", openable |-> FALSE, named |-> TRUE, nmods |-> 1]

NumProcs(tb) == tb.pad + Len(tb.tail)

ProcAt(tb, i) == IF i <= tb.pad THEN SystemEntry ELSE tb.tail[i - tb.pad]

\* Module i of a process as the OS reports it; module 1 is the main image.
OsModule(e, i) ==
    [name |-> IF i = 1 THEN e.name ELSE "kernel32.dll", base |-> i - 1, size |-> MemSize]

\* ------------------------------------------------------------ OS call outcomes
\* Outcome of the OS queries one Process::new call makes: which query fails,
\* if any (K32EnumProcesses, K32EnumProcessModulesEx, or the name query or
\* the information query of module i), and the code GetLastError() reports
\* for it (0 when none fails).  OpenProcess and K32GetModuleBaseNameA fail
\* as the table says.
OsOutcomes ==
    {[fail |-> <<"none", 0>>, code |-> 0]} \cup
    [fail : {<<"K32EnumProcesses", 0>>, <<"K32EnumProcessModulesEx", 0>>}
            \cup ({"ModuleName", "K32GetModuleInformation"} \X (1..MaxMods)),
     code : ErrCodes]

\* K32EnumProcesses(buf, cb, &needed): the bytes the OS reports as written,
\* never more than the cb it was given.
EnumProcessesNeeded(tb, cb) == Min(NumProcs(tb) * SizeOfU32, cb)

\* K32EnumProcessModulesEx(hnd, buf, cb, &needed): needed is the size of the
\* whole module list, whatever cb is.
EnumModulesNeeded(e) == e.nmods * SizeOfIsize

\* The buffer behind a vector after K32EnumProcessModulesEx wrote into it: the
\* OS writes as many module handles as fit in cb bytes; the vector's length is
\* not changed by the call.
EnumModulesFill(elems, cb, e) ==
    [i \in 1..Len(elems) |->
        IF i <= Min(cb \div SizeOfIsize, e.nmods) THEN i ELSE elems[i]]

\* ReadProcessMemory(handle, addr, buf, sz, &read): the outcomes the OS can
\* produce.  It transfers n <= sz bytes, never past the mapped range, and a
\* failing call has transferred fewer than sz and leaves an error code.
ReadOutcomes(addr, sz) ==
    {o \in [ok : BOOLEAN, n : 0..sz, code : ErrCodes \cup {0}] :
        /\ o.n <= (IF addr < MemSize THEN MemSize - addr ELSE 0)
        /\ ~o.ok => o.n < sz
        /\ o.ok <=> o.code = 0}

\* The caller's buffer after the OS transferred n bytes of image from addr.
Transfer(buf, image, addr, n) ==
    [k \in 1..Len(buf) |-> IF k <= n THEN image[addr + k - 1] ELSE buf[k]]

\* ------------------------------------------------------- get_process_modules
\* Vec::with_capacity(c): capacity c, length 0.
with_capacity(c) == [cap |-> c, elems |-> <<>>]

\* iter().take(n)
Take(seq, n) == SubSeq(seq, 1, Min(Len(seq), n))

\* The loop over the module handles.  The name query is a second
\* K32EnumProcessModulesEx call that never writes to buf, so the name read
\* from buf is the empty string.  failed collects the failing OS calls.
RECURSIVE module_loop(_, _, _, _, _, _)
module_loop(hnd, e, mods, i, q, result) ==
    IF i > Len(mods) THEN [res |-> [kind |-> "Ok", modules |-> result], failed |-> {}]
    ELSE IF q.fail = <<"ModuleName", i>>
    THEN [res |-> [kind |-> "ModuleName", handle |-> hnd, code |-> q.code],
          failed |-> {"ModuleName"}]
    ELSE LET name == ""
             m == IF mods[i] \in 1..e.nmods THEN mods[i] ELSE 1
         IN  IF q.fail = <<"K32GetModuleInformation", i>>
             THEN [res |-> [kind |-> "ModuleInformation", name |-> name, code |-> q.code],
                   failed |-> {"K32GetModuleInformation"}]
             ELSE module_loop(hnd, e, mods, i + 1, q,
                      Append(result, [name |-> name,
                                      base |-> OsModule(e, m).base,
                                      size |-> OsModule(e, m).size]))

\* get_process_modules with a failing module-list query taken for an empty list.
get_process_modules_ignoring_failure(hnd, e, q) ==
    LET modules == with_capacity(ModuleCapacity)
        cb == SizeOfIsize * Len(modules.elems)
    IN  IF q.fail[1] = "K32EnumProcessModulesEx"
        THEN [res |-> [kind |-> "Ok", modules |-> <<>>],
              failed |-> {"K32EnumProcessModulesEx"}]
        ELSE LET needed == EnumModulesNeeded(e)
                 filled == EnumModulesFill(modules.elems, cb, e)
             IN  module_loop(hnd, e, Take(filled, needed \div SizeOfIsize), 1, q, <<>>)

get_process_modules(hnd, e, q) ==
    LET modules == with_capacity(ModuleCapacity)
        cb == SizeOfIsize * Len(modules.elems)
    IN  IF q.fail[1] = "K32EnumProcessModulesEx"
        THEN [res |-> [kind |-> "ModuleEnumeration", handle |-> hnd, code |-> q.code],
              failed |-> {"K32EnumProcessModulesEx"}]
        ELSE LET needed == EnumModulesNeeded(e)
                 filled == EnumModulesFill(modules.elems, cb, e)
             IN  module_loop(hnd, e, Take(filled, needed \div SizeOfIsize), 1, q, <<>>)

\* ----------------------------------------------------------------- Process::new
\* The loop over the process identifiers.  h0 is the number of handles the
\* caller already holds; opened lists the processes a handle was opened for,
\* failed the failing OS calls made so far.  Identifiers OpenProcess fails on
\* are passed over (`continue`) up to the next one it opens.
RECURSIVE process_loop(_, _, _, _, _, _, _, _)
process_loop(exe_name, tb, n, i, h0, opened, failed, q) ==
    LET from == IF i > tb.pad THEN i ELSE IF SystemEntry.openable THEN i ELSE tb.pad + 1
        openable == {k \in from..n : ProcAt(tb, k).openable}
    IN
    IF openable = {}
    THEN [res |-> [kind |-> "NotFound", name |-> exe_name],
          opened |-> opened,
          failed |-> failed \cup (IF i <= n THEN {"OpenProcess"} ELSE {})]
    ELSE LET k == CHOOSE x \in openable : \A y \in openable : x <= y
             e == ProcAt(tb, k)
             failed1 == failed \cup (IF i < k THEN {"OpenProcess"} ELSE {})
             handle == h0 + Len(opened) + 1
             opened2 == Append(opened, k)
         IN  IF ~e.named
             THEN process_loop(exe_name, tb, n, k + 1, h0, opened2,
                               failed1 \cup {"K32GetModuleBaseNameA"}, q)
             ELSE IF e.name = exe_name
             THEN LET m == get_process_modules(handle, e, q) IN
                  [res |-> IF m.res.kind = "Ok"
                           THEN [kind |-> "Ok",
                                 process |-> [name |-> e.name,
                                              handle |-> handle,
                                              modules |-> m.res.modules]]
                           ELSE m.res,
                   opened |-> opened2, failed |-> failed1 \cup m.failed]
             ELSE process_loop(exe_name, tb, n, k + 1, h0, opened2, failed1, q)

\* Process::new reporting NotFound with the name it last looked at.
new_wrong_name(exe_name, tb, h0, q) ==
    IF q.fail[1] = "K32EnumProcesses"
    THEN [res |-> [kind |-> "ProcessEnumeration", code |-> q.code],
          opened |-> <<>>, failed |-> {"K32EnumProcesses"}]
    ELSE LET needed == EnumProcessesNeeded(tb, ProcBufLen)
             n == Min(ProcBufLen, needed \div SizeOfU32)
             r == process_loop(exe_name, tb, n, 1, h0, <<>>, {}, q)
         IN  IF r.res.kind = "NotFound"
             THEN [r EXCEPT !.res.name = IF n = 0 THEN "" ELSE ProcAt(tb, n).name]
             ELSE r

\* Process::new(exe_name) as a function of the process table and the OS
\* outcomes.  The buffer length in entries is what the code passes as cb.
new(exe_name, tb, h0, q) ==
    IF q.fail[1] = "K32EnumProcesses"
    THEN [res |-> [kind |-> "ProcessEnumeration", code |-> q.code],
          opened |-> <<>>, failed |-> {"K32EnumProcesses"}]
    ELSE LET needed == EnumProcessesNeeded(tb, ProcBufLen)
             n == Min(ProcBufLen, needed \div SizeOfU32)
         IN  process_loop(exe_name, tb, n, 1, h0, <<>>, {}, q)

Process_new ==
    \E exe_name \in Names, q \in OsOutcomes :
        LET r == new(exe_name, table, Len(handles), q) IN
        /\ Len(handles) + Len(r.opened) <= MaxHandles
        /\ r.res.kind = "Ok" => Len(procs) + Len(overlay) < MaxValues
        /\ handles' = handles \o r.opened
        /\ procs' = IF r.res.kind = "Ok" THEN Append(procs, r.res.process) ELSE procs
        /\ last' = [op |-> "Process::new", exe_name |-> exe_name, code |-> q.code,
                    res |-> r.res, opened |-> r.opened, failed |-> r.failed]
        /\ UNCHANGED <<table, mem, overlay>>

\* ------------------------------------------------------- Process values
Remove(seq, i) == SubSeq(seq, 1, i - 1) \o SubSeq(seq, i + 1, Len(seq))

\* #[derive(Clone)] on Process: a field-wise copy, the handle included.
Clone ==
    \E i \in 1..Len(procs) :
        /\ Len(procs) < MaxValues + MaxClones
        /\ procs' = Append(procs, procs[i])
        /\ last' = [op |-> "Process::clone", handle |-> procs[i].handle]
        /\ UNCHANGED <<table, handles, mem, overlay>>

\* A Process value goes out of scope.  Process has no Drop implementation and
\* HANDLE is a plain integer: no OS call is made.
DropProcess ==
    \E i \in 1..Len(procs) :
        /\ procs' = Remove(procs, i)
        /\ last' = [op |-> "drop(Process)", handle |-> procs[i].handle]
        /\ UNCHANGED <<table, handles, mem, overlay>>

\* process.modules = vec![ProcessModule { .. }]: the fields of Process are
\* public, so a caller can give a Process a module table of its own.
SetModules ==
    \E i \in 1..Len(procs), base \in 0..1 :
        LET modules == <<[name |-> procs[i].name, base |-> base, size |-> MemSize]>> IN
        /\ procs[i].modules # modules
        /\ procs' = [procs EXCEPT ![i].modules = modules]
        /\ last' = [op |-> "Process.modules=", handle |-> procs[i].handle]
        /\ UNCHANGED <<table, handles, mem, overlay>>

\* ----------------------------------------------------------------- Process::read
\* One ReadProcessMemory call into the caller's buffer buf (sz zero bytes
\* here); read is the caller's out-parameter, which the OS sets.
\* Process::read taking a short transfer for a failure.
read_result_strict(addr, sz, o) ==
    IF ~o.ok \/ o.n # sz
    THEN [kind |-> "Read", addr |-> addr, code |-> o.code, read |-> o.n]
    ELSE [kind |-> "Ok"]

\* The value Process::read returns for an OS outcome o.
read_result(addr, sz, o) ==
    IF ~o.ok
    THEN [kind |-> "Read", addr |-> addr, code |-> o.code, read |-> o.n]
    ELSE [kind |-> "Ok"]

Process_read ==
    \E i \in 1..Len(procs), addr \in 0..MemSize, sz \in 1..TSize :
    \E o \in ReadOutcomes(addr, sz) :
        LET image == mem[handles[procs[i].handle]]
            buf == Transfer([k \in 1..sz |-> 0], image, addr, o.n)
            read == o.n
        IN  /\ last' = [op |-> "Process::read", addr |-> addr, sz |-> sz, os |-> o,
                        calls |-> <<[handle |-> procs[i].handle, addr |-> addr, sz |-> sz]>>,
                        read |-> read, buf |-> buf,
                        res |-> read_result(addr, sz, o)]
            /\ UNCHANGED <<table, handles, mem, procs, overlay>>

\* ------------------------------------------------------------- RemoteStruct
\* T::default() for a record of TSize bytes.
DefaultT == [k \in 1..TSize |-> 0]

\* RemoteStruct::new(process, address).  The arguments of log::debug! are
\* evaluated only when the Debug level is enabled at the time of the call
\* (debugLog); process.modules[0] panics on an empty module list.  The
\* process is moved into the call either way.
RemoteStruct_new ==
    \E i \in 1..Len(procs), address \in 0..1, debugLog \in BOOLEAN :
        LET process == procs[i] IN
        /\ overlay = <<>>
        /\ procs' = Remove(procs, i)
        /\ IF debugLog /\ Len(process.modules) = 0
           THEN /\ overlay' = overlay
                /\ last' = [op |-> "RemoteStruct::new", res |-> [kind |-> "Panic"],
                            process |-> process, calls |-> <<>>]
           ELSE /\ overlay' = Append(overlay,
                        [t |-> DefaultT, module |-> 0, address |-> address,
                         process |-> process])
                /\ last' = [op |-> "RemoteStruct::new", res |-> [kind |-> "Ok"],
                            process |-> process, calls |-> <<>>]
        /\ UNCHANGED <<table, handles, mem>>

\* The address RemoteStruct::read reads, without the module base.
read_addr_without_base(self) == self.address

\* let read_addr = self.process.modules[self.module].base + self.address
\* (u64; the bases and offsets used here are far from overflowing it)
read_addr_of(self) == self.process.modules[self.module + 1].base + self.address

\* RemoteStruct::read(&mut self).  ReadProcessMemory is handed the address of
\* self.t itself as its buffer.
RemoteStruct_read ==
    \E j \in 1..Len(overlay) :
        LET self == overlay[j] IN
        IF self.module + 1 > Len(self.process.modules)
        THEN /\ last' = [op |-> "RemoteStruct::read", slot |-> j, before |-> self.t,
                         res |-> [kind |-> "Panic"], calls |-> <<>>]
             /\ UNCHANGED <<table, handles, mem, procs, overlay>>
        ELSE LET t_size == TSize
                 read_addr == read_addr_of(self)
                 image == mem[handles[self.process.handle]]
             IN  \E o \in ReadOutcomes(read_addr, t_size) :
                 LET read == o.n IN
                 /\ overlay' = [overlay EXCEPT
                                    ![j].t = Transfer(self.t, image, read_addr, read)]
                 /\ last' = [op |-> "RemoteStruct::read", slot |-> j, before |-> self.t,
                             read_addr |-> read_addr, os |-> o,
                             calls |-> <<[handle |-> self.process.handle,
                                          addr |-> read_addr, sz |-> t_size]>>,
                             res |-> IF ~o.ok
                                     THEN [kind |-> "Read", addr |-> read_addr,
                                           code |-> o.code, read |-> read]
                                     ELSE IF read = t_size
                                     THEN [kind |-> "Ok"]
                                     ELSE [kind |-> "IncorrectSize",
                                           expected |-> t_size, actual |-> read]]
                 /\ UNCHANGED <<table, handles, mem, procs>>

\* A RemoteStruct goes out of scope; its Process goes with it, without any
\* OS call.
DropOverlay ==
    \E j \in 1..Len(overlay) :
        /\ overlay' = Remove(overlay, j)
        /\ last' = [op |-> "drop(RemoteStruct)", handle |-> overlay[j].process.handle]
        /\ UNCHANGED <<table, handles, mem, procs>>

\* ------------------------------------------------------------ environment
\* The target process writes one byte of its own memory.
RemoteWrite ==
    \E pid \in DOMAIN mem, a \in 0..(MemSize - 1), b \in Byte :
        /\ mem[pid][a] # b
        /\ mem' = [mem EXCEPT ![pid][a] = b]
        /\ last' = [op |-> "RemoteWrite"]
        /\ UNCHANGED <<table, handles, procs, overlay>>

\* ------------------------------------------------------------ specifications
\* Number of identifiers that fit in the cb the code passes to K32EnumProcesses.
ProcCap == ProcBufLen \div SizeOfU32

RECURSIVE SeqsUpTo(_, _)
SeqsUpTo(S, n) ==
    IF n = 0 THEN {<<>>}
    ELSE LET T == SeqsUpTo(S, n - 1) IN
         T \cup {Append(t, x) : t \in {u \in T : Len(u) = n - 1}, x \in S}

Tables == [pad : {0, ProcCap - 1, ProcBufLen}, tail : SeqsUpTo(Entries, MaxTail)]

NoCall == [op |-> "init"]

\* The locator on every process table: Process::new and the lifetime of the
\* values it returns.
Init ==
    /\ table \in Tables
    /\ handles = <<>>
    /\ mem = [pid \in (table.pad + 1)..NumProcs(table) |-> [a \in 0..(MemSize - 1) |-> 0]]
    /\ procs = <<>>
    /\ overlay = <<>>
    /\ last = NoCall

Next == Process_new \/ Clone \/ DropProcess

Spec == Init /\ [][Next]_vars

\* The overlay over one process table that holds the target.
InitOverlay ==
    /\ table = [pad |-> 0,
                tail |-> <<[name |-> "ffxiv.exe", openable |-> TRUE, named |-> TRUE,
                            nmods |-> MaxMods]>>]
    /\ handles = <<>>
    /\ mem = [pid \in (table.pad + 1)..NumProcs(table) |-> [a \in 0..(MemSize - 1) |-> 0]]
    /\ procs = <<>>
    /\ overlay = <<>>
    /\ last = NoCall

NextOverlay ==
    \/ Process_new \/ SetModules
    \/ RemoteStruct_new \/ RemoteStruct_read \/ DropOverlay
    \/ RemoteWrite

SpecOverlay == InitOverlay /\ [][NextOverlay]_vars

\* The raw reader over the same process table.
NextReader == Process_new \/ DropProcess \/ Process_read \/ RemoteWrite

SpecReader == InitOverlay /\ [][NextReader]_vars

\* ------------------------------------------------------------------ properties
IsNew == last.op = "Process::new"
IsRefresh == last.op = "RemoteStruct::read"
IsBind == last.op = "RemoteStruct::new"
IsRead == last.op = "Process::read"

ModuleQueries == {"K32EnumProcessModulesEx", "ModuleName", "K32GetModuleInformation"}

\* The indices of the table whose process carries the name.
Carrying(tb, name) ==
    {i \in (IF SystemEntry.name = name THEN 1 ELSE tb.pad + 1)..NumProcs(tb) :
        ProcAt(tb, i).name = name}

\* The bytes of a process's memory a full read of the record at addr returns
\* (-1 for an address that is not mapped).
ImageAt(image, addr) ==
    [k \in 1..TSize |-> IF addr + k - 1 \in DOMAIN image THEN image[addr + k - 1] ELSE -1]

\* C1: a refresh whose OS read did not transfer exactly size_of(T) bytes (a
\* short or a failed read) returns an error, IncorrectSize(size_of(T), n) for
\* a short read, and leaves the record as it was before the call.
C1_ShortReadLeavesRecord ==
    (IsRefresh /\ last.calls # <<>> /\ (~last.os.ok \/ last.os.n # TSize)) =>
        /\ overlay[last.slot].t = last.before
        /\ last.os.ok =>
               last.res = [kind |-> "IncorrectSize", expected |-> TSize,
                           actual |-> last.os.n]
        /\ ~last.os.ok => last.res.kind = "Read"

\* C2: a Process that Process::new returns has at least one module, and its
\* module 0 carries the name of the located process's main image.
C2_ModulesNonEmpty ==
    (IsNew /\ last.res.kind = "Ok") =>
        /\ Len(last.res.process.modules) >= 1
        /\ last.res.process.modules[1].name = last.res.process.name

\* C3: when more processes exist than the 1024-entry buffer holds and the
\* target is among them (openable, with a readable name), Process::new does
\* not answer NotFound from the truncated list.
C3_OverflowNotSilent ==
    (/\ IsNew
     /\ NumProcs(table) > ProcBufLen
     /\ "K32EnumProcesses" \notin last.failed
     /\ \E i \in Carrying(table, last.exe_name) :
            ProcAt(table, i).openable /\ ProcAt(table, i).named)
        => last.res.kind # "NotFound"

\* The handles the live Process values and overlay hold.
HeldBy == [i \in 1..Len(procs) |-> procs[i].handle]
          \o [j \in 1..Len(overlay) |-> overlay[j].process.handle]

\* C4: no two live values hold the same handle, and every handle that is
\* still open (none is ever closed twice) is held by a live value: a handle
\* whose owner is gone has been released.
C4_HandleOwnedOnceReleasedOnce ==
    /\ \A i, j \in 1..Len(HeldBy) : i # j => HeldBy[i] # HeldBy[j]
    /\ \A h \in 1..Len(handles) : \E i \in 1..Len(HeldBy) : HeldBy[i] = h

\* C5 as stated: for a target name no process of the table carries,
\* Process::new fails with NotFound(target name) and nothing else.
C5_AbsentIsNotFound ==
    (IsNew /\ Carrying(table, last.exe_name) = {}) =>
        last.res = [kind |-> "NotFound", name |-> last.exe_name]

\* C5 amended: for a target name no process of the table carries, Process::new
\* fails with NotFound(target name) whenever the process enumeration call
\* itself succeeds, whatever unopenable or nameless candidates there are.
C5_AbsentIsNotFoundWhenEnumerated ==
    (IsNew /\ Carrying(table, last.exe_name) = {}
           /\ "K32EnumProcesses" \notin last.failed) =>
        last.res = [kind |-> "NotFound", name |-> last.exe_name]

C5_Witness ==
    /\ IsNew /\ Carrying(table, last.exe_name) = {}
    /\ last.res.kind = "NotFound"
    /\ {"OpenProcess", "K32GetModuleBaseNameA"} \subseteq last.failed

\* C6: a Process::new call that did not return the error of a failing query
\* (it returned a Process or NotFound) has had no query fail but OpenProcess.
C6_OnlyOpenFailureSkipped ==
    (IsNew /\ last.res.kind \in {"Ok", "NotFound"}) => last.failed \subseteq {"OpenProcess"}

\* C7: when a module query of Process::new fails, the call returns that
\* query's error with the OS error code (and the handle of the process, for
\* the module list and module name queries), and no Process is constructed.
C7_ModuleEnumerationAllOrNothing ==
    (IsNew /\ last.failed \cap ModuleQueries # {}) =>
        /\ last.res.kind \in {"ModuleEnumeration", "ModuleName", "ModuleInformation"}
        /\ last.res.code = last.code
        /\ last.res.kind # "ModuleInformation" => last.res.handle = Len(handles)
        /\ "K32EnumProcessModulesEx" \in last.failed => last.res.kind = "ModuleEnumeration"
        /\ \A i \in 1..Len(procs) : procs[i].handle # Len(handles)

C7_Witness ==
    /\ IsNew /\ "K32EnumProcessModulesEx" \in last.failed
    /\ last.res.kind = "ModuleEnumeration"

\* C8: RemoteStruct::new always returns an overlay, whose record is
\* T::default(), and makes no OS read.
C8_BindInfallible ==
    IsBind =>
        /\ last.res.kind = "Ok"
        /\ Len(overlay) >= 1 /\ overlay[Len(overlay)].t = DefaultT
        /\ last.calls = <<>>

\* C9: a refresh whose read transfers the whole record returns Ok and leaves
\* the record equal to the remote bytes at modules[module].base + address;
\* a second refresh right after it, the remote memory being unchanged,
\* returns Ok with the same record.
C9_RefreshRoundTrip ==
    /\ [](\A j \in 1..Len(overlay) :
            (IsRefresh /\ last.slot = j /\ last.calls # <<>>
                /\ last.os.ok /\ last.os.n = TSize) =>
                /\ last.res = [kind |-> "Ok"]
                /\ overlay[j].t =
                       ImageAt(mem[handles[overlay[j].process.handle]],
                               overlay[j].process.modules[overlay[j].module + 1].base
                                   + overlay[j].address))
    /\ [][(IsRefresh /\ last.res.kind = "Ok" /\ IsRefresh' /\ last'.res.kind = "Ok"
              /\ last'.slot = last.slot)
             => overlay'[last.slot].t = overlay[last.slot].t]_vars

\* A refresh at module[0].base + 0 that returned Ok and reproduced the record
\* an earlier refresh had read, which is not the default record.
C9_Witness ==
    /\ IsRefresh /\ last.res.kind = "Ok"
    /\ overlay[last.slot].address = 0 /\ overlay[last.slot].module = 0
    /\ overlay[last.slot].t = last.before
    /\ overlay[last.slot].t # DefaultT

\* C10: Process::read makes one ReadProcessMemory call for the address and
\* length it was given; when the call succeeds it returns Ok and the
\* out-parameter is the count transferred, even a short one; when it fails it
\* returns Read(address, OS code, count transferred).
C10_ReadSurfacesCount ==
    IsRead =>
        /\ Len(last.calls) = 1
        /\ last.calls[1].addr = last.addr /\ last.calls[1].sz = last.sz
        /\ last.os.ok => (last.res = [kind |-> "Ok"] /\ last.read = last.os.n)
        /\ ~last.os.ok =>
               last.res = [kind |-> "Read", addr |-> last.addr, code |-> last.os.code,
                           read |-> last.os.n]

\* A successful read that transferred some, not all, of the bytes asked for.
C10_Witness ==
    IsRead /\ last.os.ok /\ 0 < last.os.n /\ last.os.n < last.sz /\ last.res.kind = "Ok"

====
